---- MODULE Spec2Model ----
(***************************************************************************)
(* Model of the progressive PSD loader of src/io-psd.c: the decode session *)
(* (PsdContext), begin_load, load_increment and stop_load, together with   *)
(* feed_buffer, skip_block, psd_parse_header and decompress_line.          *)
(***************************************************************************)
EXTENDS Integers, Sequences, FiniteSets, TLC

\* ------------------------------------------------------------------------
\* Bounds of the explored inputs
\* ------------------------------------------------------------------------
MaxWidth == 3
MaxBlockLen == 1
MaxNops == 1

\* ------------------------------------------------------------------------
\* Program constants
\* ------------------------------------------------------------------------
PSD_HEADER_SIZE == 26
INITIAL_BUFFER_SIZE == 256

PSD_MODE_GRAYSCALE == 1
PSD_MODE_INDEXED == 2
PSD_MODE_RGB == 3
PSD_MODE_CMYK == 4
PSD_MODE_DUOTONE == 8
PSD_MODE_LAB == 9

PSD_COMPRESSION_NONE == 0
PSD_COMPRESSION_RLE == 1

PSD_STATE_HEADER == 0
PSD_STATE_COLOR_MODE_BLOCK == 1
PSD_STATE_RESOURCES_BLOCK == 2
PSD_STATE_LAYERS_BLOCK == 3
PSD_STATE_COMPRESSION == 4
PSD_STATE_LINES_LENGTHS == 5
PSD_STATE_CHANNEL_DATA == 6
PSD_STATE_DONE == 7

\* ------------------------------------------------------------------------
\* Machine arithmetic and memory
\* ------------------------------------------------------------------------
\* guint16 values wrap at W16.  guint and guint32 values are kept exact below
\* 2^31, the largest integer TLC represents: the dimensions, counts and
\* offsets of the explored inputs stay below it, so none of them wraps and a
\* gint holds the same value.
W16 == 65536

\* a byte read as an unsigned char
ToGcharUnsigned(b) == b

\* a byte read as a gchar (signed char on the builds this loader targets)
ToGchar(b) == IF b >= 128 THEN b - 256 ELSE b

\* the content of a byte that was never written
U == -1

Min(a, b) == IF a < b THEN a ELSE b
Max(a, b) == IF a > b THEN a ELSE b

\* the worst of two faults: none < ub (undefined behaviour, may or may not
\* be visible) < segv (a null pointer is dereferenced)
FaultJoin(f, g) ==
    IF f = "segv" \/ g = "segv" THEN "segv"
    ELSE IF f = "ub" \/ g = "ub" THEN "ub"
    ELSE "none"

\* g_malloc: a block of n uninitialised bytes, NULL when n = 0.  mem holds
\* the bytes from offset 0 up to the last one written so far; cap is the
\* allocated size.
NullBuf == [null |-> TRUE, cap |-> 0, mem |-> << >>]

g_malloc(n) ==
    IF n = 0 THEN NullBuf
    ELSE [null |-> FALSE, cap |-> n, mem |-> << >>]

\* the byte at offset i of a block; g stands for what an uninitialised or
\* out-of-bounds location happens to hold
ReadByte(buf, i, g) ==
    IF i < Len(buf.mem) /\ buf.mem[i + 1] # U THEN buf.mem[i + 1] ELSE g

ReadFault(buf, i) ==
    IF buf.null THEN "segv" ELSE IF i >= buf.cap THEN "ub" ELSE "none"

\* memcpy(buf + off, bytes, Len(bytes)); bytes written past the capacity
\* land in the memory that follows the block
WriteBytes(buf, off, bytes) ==
    LET n == Len(bytes)
        newLen == Max(Len(buf.mem), off + n)
    IN  IF n = 0 THEN buf
        ELSE [buf EXCEPT !.mem =
                [i \in 1..newLen |->
                    IF i > off /\ i <= off + n THEN bytes[i - off]
                    ELSE IF i <= Len(buf.mem) THEN buf.mem[i]
                    ELSE U]]

WriteFault(buf, off, n) ==
    IF n = 0 THEN "none"
    ELSE IF buf.null THEN "segv"
    ELSE IF off + n > buf.cap THEN "ub"
    ELSE "none"

\* ------------------------------------------------------------------------
\* Big-endian parsing
\* ------------------------------------------------------------------------
parse_uint16(buf, off, g) ==
    (ReadByte(buf, off, g) * 256 + ReadByte(buf, off + 1, g)) % W16

\* a value of 2^31 or more is represented by GUINT_SAT: the only such values
\* met are block lengths, which are compared with and reduced by chunk
\* sizes far below it
GUINT_SAT == 2147483647

parse_uint32(buf, off, g) ==
    IF ReadByte(buf, off, g) >= 128 THEN GUINT_SAT
    ELSE ReadByte(buf, off, g) * 16777216 + ReadByte(buf, off + 1, g) * 65536
            + ReadByte(buf, off + 2, g) * 256 + ReadByte(buf, off + 3, g)

psd_parse_header(buf, g) ==
    [version    |-> parse_uint16(buf, 4, g),
     channels   |-> parse_uint16(buf, 12, g),
     rows       |-> parse_uint32(buf, 14, g),
     columns    |-> parse_uint32(buf, 18, g),
     depth      |-> parse_uint16(buf, 22, g),
     color_mode |-> parse_uint16(buf, 24, g)]

\* ------------------------------------------------------------------------
\* feed_buffer: copy up to bytes_needed - bytes_read bytes of data
\* ------------------------------------------------------------------------
feed_buffer(buffer, bytes_read, data, bytes_needed) ==
    LET size == Len(data)
        diff == bytes_needed - bytes_read
        \* gint how_many is compared with the unsigned *size as unsigned: a
        \* negative difference is a value above 2^31 and so above *size
        how_many == IF diff < 0 \/ diff > size THEN size ELSE diff
        nread == bytes_read + how_many
    IN  [buffer     |-> WriteBytes(buffer, bytes_read, SubSeq(data, 1, how_many)),
         bytes_read |-> nread,
         data       |-> SubSeq(data, how_many + 1, size),
         how_many   |-> how_many,
         fault      |-> WriteFault(buffer, bytes_read, how_many),
         done       |-> nread = bytes_needed]

\* ------------------------------------------------------------------------
\* decompress_line: PackBits decoding of line_length bytes of src into
\* dest, starting at offset doff of dest
\* ------------------------------------------------------------------------
RECURSIVE decompress_loop(_, _, _, _, _, _, _)
decompress_loop(src, line_length, dest, doff, bytes_read, fault, g) ==
    IF bytes_read >= line_length THEN [dest |-> dest, fault |-> fault]
    ELSE
        LET byte == ToGchar(ReadByte(src, bytes_read, g))
            f0 == FaultJoin(fault, ReadFault(src, bytes_read))
            br1 == (bytes_read + 1) % W16
        IN  IF byte = -128 THEN
                decompress_loop(src, line_length, dest, doff, br1, f0, g)
            ELSE IF byte > -1 THEN
                LET count == byte + 1
                    bytes == [k \in 1..count |-> ReadByte(src, br1 + k - 1, g)]
                    f1 == FaultJoin(f0, FaultJoin(ReadFault(src, br1 + count - 1),
                                                 WriteFault(dest, doff, count)))
                IN  decompress_loop(src, line_length,
                                    WriteBytes(dest, doff, bytes), doff + count,
                                    (br1 + count) % W16, f1, g)
            ELSE
                LET count == (-byte) + 1
                    next_byte == ReadByte(src, br1, g)
                    f1 == FaultJoin(f0, FaultJoin(ReadFault(src, br1),
                                                 WriteFault(dest, doff, count)))
                IN  decompress_loop(src, line_length,
                                    WriteBytes(dest, doff, [k \in 1..count |-> next_byte]),
                                    doff + count, (br1 + 1) % W16, f1, g)

decompress_line(src, line_length, dest, doff, g) ==
    decompress_loop(src, line_length, dest, doff, 0, "none", g)

\* ------------------------------------------------------------------------
\* The decode session
\* ------------------------------------------------------------------------
reset_context(c) ==
    [c EXCEPT !.bytes_read = 0, !.bytes_to_skip = 0, !.bytes_to_skip_known = FALSE]

\* gdk_pixbuf_new(GDK_COLORSPACE_RGB, FALSE, 8, w, h): NULL unless both
\* dimensions are positive; rows are padded to a multiple of four bytes and
\* the pixels start uninitialised
Rowstride(w) == 4 * ((3 * w + 3) \div 4)

NullPixbuf == [null |-> TRUE, width |-> 0, height |-> 0, rowstride |-> 0, pixels |-> << >>]

gdk_pixbuf_new(w, h) ==
    IF w <= 0 \/ h <= 0 THEN NullPixbuf
    ELSE [null |-> FALSE, width |-> w, height |-> h, rowstride |-> Rowstride(w),
          pixels |-> [i \in 1..(h * Rowstride(w)) |-> U]]

\* the names of the blocks a session allocates
Block(name) == << name, 0 >>
ChannelBlock(i) == << "channel", i >>

\* the session after gdk_pixbuf__psd_image_begin_load; the fields the code
\* leaves unset hold U.  live, consumed, prepared_log and phases are
\* bookkeeping of the model: the blocks the session has allocated and not
\* freed, the number of stream bytes consumed so far, one entry per call of
\* prepared_func, and one entry per phase entered with the number of stream
\* bytes consumed when it was entered.
begin_load(has_size_func) ==
    reset_context(
    [state |-> PSD_STATE_HEADER,
     pixbuf |-> NullPixbuf,
     size_func |-> has_size_func,
     buffer |-> g_malloc(INITIAL_BUFFER_SIZE),
     bytes_read |-> U, bytes_to_skip |-> U, bytes_to_skip_known |-> FALSE,
     width |-> U, height |-> U, channels |-> U, depth |-> U,
     color_mode |-> U, compression |-> U,
     channels_buffers |-> << >>,
     current_channel |-> 0, current_row |-> 0, position |-> 0,
     lines_lengths |-> NullBuf,
     live |-> {Block("ctx"), Block("buffer")},
     consumed |-> 0,
     prepared_log |-> << >>,
     phases |-> << [state |-> PSD_STATE_HEADER, at |-> 0] >>])

\* ------------------------------------------------------------------------
\* skip_block: on st = [c, data, counter, fault], with done added
\* ------------------------------------------------------------------------
\* lines 347-358 with the static counter, not the session's own field,
\* deciding how much of the block is left
skip_payload_static(st) ==
    LET c == st.c
        size == Len(st.data)
        left == Max(c.bytes_to_skip - st.counter, 0)
    IN  IF size < left THEN
            [st EXCEPT !.c.consumed = c.consumed + size,
                       !.counter = st.counter + size,
                       !.data = << >>,
                       !.done = FALSE]
        ELSE
            [st EXCEPT !.c.consumed = c.consumed + left,
                       !.counter = st.counter + left,
                       !.data = SubSeq(st.data, left + 1, size),
                       !.done = TRUE]

skip_payload(st) ==
    LET c == st.c
        size == Len(st.data)
    IN  IF size < c.bytes_to_skip THEN
            [st EXCEPT !.c.bytes_to_skip = c.bytes_to_skip - size,
                       !.c.consumed = c.consumed + size,
                       !.counter = st.counter + size,
                       !.data = << >>,
                       !.done = FALSE]
        ELSE
            [st EXCEPT !.c.consumed = c.consumed + c.bytes_to_skip,
                       !.counter = st.counter + c.bytes_to_skip,
                       !.data = SubSeq(st.data, c.bytes_to_skip + 1, size),
                       !.done = TRUE]

\* lines 339-345, fb being what feed_buffer returned for the 4-byte prefix
skip_prefix(st, fb, g) ==
    IF fb.done THEN
        skip_payload(
            [st EXCEPT !.c.buffer = fb.buffer,
                       !.c.bytes_read = fb.bytes_read,
                       !.c.consumed = st.c.consumed + fb.how_many,
                       !.c.bytes_to_skip = parse_uint32(fb.buffer, 0, g),
                       !.c.bytes_to_skip_known = TRUE,
                       !.data = fb.data,
                       !.fault = FaultJoin(st.fault, fb.fault),
                       !.counter = 0])
    ELSE [st EXCEPT !.c.buffer = fb.buffer,
                    !.c.bytes_read = fb.bytes_read,
                    !.c.consumed = st.c.consumed + fb.how_many,
                    !.data = fb.data,
                    !.fault = FaultJoin(st.fault, fb.fault),
                    !.done = FALSE]

\* skip_block on st = [c, data, counter, fault, done]
skip_block(st, g) ==
    IF ~st.c.bytes_to_skip_known
    THEN skip_prefix(st, feed_buffer(st.c.buffer, 0, st.data, 4), g)
    ELSE skip_payload(st)

\* ------------------------------------------------------------------------
\* gdk_pixbuf__psd_image_load_increment
\*
\* A call is run on st = [c, data, counter, ret, error, fault, asked]: the
\* session, the unconsumed input, skip_block's static counter, the return
\* value ("loop" while the call is still in its while loop), the error
\* reported, the worst fault met and the dimensions size_func left when it
\* was called last (<< >> when it was not).  env holds what the call cannot decide itself:
\* answer, what size_func does to the dimensions it is handed, and g, the
\* value an uninitialised or out-of-bounds read delivers.
\* ------------------------------------------------------------------------
SizeAnswers == {"keep", "zero_w", "zero_h"}

\* ctx->size_func(&w, &h, user_data)
size_func(w, h, answer) ==
    [w |-> IF answer = "zero_w" THEN 0 ELSE w,
     h |-> IF answer = "zero_h" THEN 0 ELSE h]

\* line 518: the dimensions size_func left veto the load
size_vetoed_both(wh) == wh.w = 0 /\ wh.h = 0

size_vetoed(wh) == wh.w = 0 \/ wh.h = 0

\* lines 545-557: one buffer of width * height bytes per channel
alloc_channels_short(c) ==
    [c EXCEPT !.channels_buffers =
                [i \in 1..(c.channels - 1) |-> g_malloc(c.width * c.height)],
              !.live = c.live \cup {Block("channels_buffers")}
                       \cup {ChannelBlock(i) : i \in 0..(c.channels - 2)}]

alloc_channels(c) ==
    [c EXCEPT !.channels_buffers =
                [i \in 1..c.channels |-> g_malloc(c.width * c.height)],
              !.live = c.live \cup {Block("channels_buffers")}
                       \cup {ChannelBlock(i) : i \in 0..(c.channels - 1)}]

\* line 559: ctx->prepared_func(ctx->pixbuf, NULL, ctx->user_data)
prepared_func(c) ==
    [c EXCEPT !.prepared_log = Append(c.prepared_log,
                [live |-> c.live, consumed |-> c.consumed, state |-> c.state,
                 width |-> c.pixbuf.width, height |-> c.pixbuf.height])]

\* lines 523-563: the buffers are allocated, prepared_func is called and
\* the phase moves on; c is the session with the header fields set, asked
\* what size_func left
header_allocate(st, c, nbuffer, nlines, npixbuf, asked) ==
    IF nlines.null \/ nbuffer.null \/ npixbuf.null THEN
        [st EXCEPT !.c = c, !.ret = "FALSE", !.error = "nomem", !.asked = asked]
    ELSE [st EXCEPT !.c = reset_context(
                        [prepared_func(alloc_channels(c))
                            EXCEPT !.state = PSD_STATE_COLOR_MODE_BLOCK]),
                    !.asked = asked]

\* lines 514-533, wh being what size_func left of the dimensions
header_negotiate(st, c, wh) ==
    IF c.size_func /\ size_vetoed(wh) THEN
        [st EXCEPT !.c = c, !.ret = "FALSE", !.error = "veto",
                   !.asked = << wh.w, wh.h >>]
    ELSE header_allocate(st,
            [c EXCEPT !.buffer = g_malloc(c.width * 2),
                      !.lines_lengths = g_malloc(2 * c.channels * c.height),
                      !.pixbuf = gdk_pixbuf_new(c.width, c.height),
                      !.live = (c.live \ {Block("buffer")})
                               \cup (IF c.width * 2 = 0 THEN {} ELSE {Block("buffer")})
                               \cup (IF 2 * c.channels * c.height = 0 THEN {}
                                     ELSE {Block("lines_lengths")})
                               \cup (IF c.width <= 0 \/ c.height <= 0 THEN {}
                                     ELSE {Block("pixbuf")})],
            g_malloc(c.width * 2),
            g_malloc(2 * c.channels * c.height),
            gdk_pixbuf_new(c.width, c.height),
            IF c.size_func THEN << wh.w, wh.h >> ELSE << >>)

\* lines 508-512
header_store(st, hd, env) ==
    header_negotiate(st,
        [st.c EXCEPT !.width = hd.columns, !.height = hd.rows,
                     !.channels = hd.channels, !.depth = hd.depth,
                     !.color_mode = hd.color_mode],
        size_func(hd.columns, hd.rows, env.answer))

\* the fault of reading the 26 header bytes of buf: a header read from bytes
\* that were never written is undefined
header_fault(buf) ==
    FaultJoin(ReadFault(buf, PSD_HEADER_SIZE - 1),
              IF \E i \in 0..(PSD_HEADER_SIZE - 1) :
                    i >= Len(buf.mem) \/ buf.mem[i + 1] = U
              THEN "ub" ELSE "none")

\* case PSD_STATE_HEADER, once the 26 bytes are there.  Of a header read
\* from unwritten bytes the outcomes kept are a crash and the header of 26
\* zero bytes.
header_complete(st, env) ==
    IF st.c.buffer.null THEN [st EXCEPT !.fault = "segv", !.ret = "FALSE"]
    ELSE header_store([st EXCEPT !.fault = FaultJoin(st.fault, header_fault(st.c.buffer))],
                      psd_parse_header(st.c.buffer, 0), env)

\* what every case does with the result fb of feed_buffer on the
\* accumulation buffer
fed(st, fb) ==
    [st EXCEPT !.c.buffer = fb.buffer,
               !.c.bytes_read = fb.bytes_read,
               !.c.consumed = st.c.consumed + fb.how_many,
               !.data = fb.data,
               !.fault = FaultJoin(st.fault, fb.fault)]

header_case(st, fb, env) ==
    IF fb.done THEN header_complete(fed(st, fb), env) ELSE fed(st, fb)

\* the three length-prefixed blocks, sb being what skip_block returned
block_done(st, sb, next_state) ==
    [st EXCEPT !.c = IF sb.done THEN reset_context([sb.c EXCEPT !.state = next_state])
                     ELSE sb.c,
               !.data = sb.data, !.counter = sb.counter, !.fault = sb.fault]

block_case(st, env, next_state) ==
    block_done(st,
               skip_block([c |-> st.c, data |-> st.data, counter |-> st.counter,
                           fault |-> st.fault, done |-> FALSE], env.g),
               next_state)

\* lines 586-598 with the line-length table read for every known type
compression_complete_lengths(st, compression) ==
    IF compression \in {PSD_COMPRESSION_RLE, PSD_COMPRESSION_NONE} THEN
        [st EXCEPT !.c = reset_context(
            [st.c EXCEPT !.compression = compression,
                         !.state = PSD_STATE_LINES_LENGTHS])]
    ELSE [st EXCEPT !.c.compression = compression,
                    !.ret = "FALSE", !.error = "unknown_type"]

\* lines 586-598
compression_complete(st, compression) ==
    IF compression = PSD_COMPRESSION_RLE THEN
        [st EXCEPT !.c = reset_context(
            [st.c EXCEPT !.compression = compression,
                         !.state = PSD_STATE_LINES_LENGTHS])]
    ELSE IF compression = PSD_COMPRESSION_NONE THEN
        [st EXCEPT !.c.compression = compression,
                   !.c.state = PSD_STATE_CHANNEL_DATA]
    ELSE [st EXCEPT !.c.compression = compression,
                    !.ret = "FALSE", !.error = "unknown_type"]

compression_case(st, fb, env) ==
    IF fb.done THEN compression_complete(fed(st, fb), parse_uint16(fb.buffer, 0, env.g))
    ELSE fed(st, fb)

\* the table entry lines_lengths[i], stored in host (little-endian) order
lines_lengths_at(c, i, g) ==
    (ReadByte(c.lines_lengths, 2 * i, g) + 256 * ReadByte(c.lines_lengths, 2 * i + 1, g)) % W16

\* the loop of lines 607-610 on table t of n entries: every entry is read
\* big-endian and stored back
convert_lines_lengths(t, n, g) ==
    [t EXCEPT !.mem =
        [k \in 1..Len(t.mem) |->
            IF k <= 2 * n
            THEN IF (k - 1) % 2 = 0
                 THEN parse_uint16(t, 2 * ((k - 1) \div 2), g) % 256
                 ELSE parse_uint16(t, 2 * ((k - 1) \div 2), g) \div 256
            ELSE t.mem[k]]]

\* case PSD_STATE_LINES_LENGTHS; here feed_buffer fills the table itself
lines_case(st, fb, env) ==
    IF fb.done THEN
        [st EXCEPT !.c = reset_context(
                        [st.c EXCEPT !.lines_lengths =
                                        convert_lines_lengths(fb.buffer,
                                            st.c.height * st.c.channels, env.g),
                                     !.consumed = st.c.consumed + fb.how_many,
                                     !.state = PSD_STATE_CHANNEL_DATA]),
                   !.data = fb.data,
                   !.fault = FaultJoin(st.fault, fb.fault)]
    ELSE [st EXCEPT !.c.lines_lengths = fb.buffer,
                    !.c.bytes_read = fb.bytes_read,
                    !.c.consumed = st.c.consumed + fb.how_many,
                    !.data = fb.data,
                    !.fault = FaultJoin(st.fault, fb.fault)]

\* lines 630-640 with the write offset kept at a channel change
next_row_keep_position(c) ==
    IF c.current_row + 1 >= c.height
    THEN [c EXCEPT !.current_channel = c.current_channel + 1,
                   !.current_row = 0,
                   !.position = c.position + c.width,
                   !.state = IF c.current_channel + 1 >= c.channels
                             THEN PSD_STATE_DONE ELSE c.state]
    ELSE [c EXCEPT !.position = c.position + c.width,
                   !.current_row = c.current_row + 1]

\* lines 630-640 with the row cursor compared by > instead of >=
next_row_late(c) ==
    IF c.current_row + 1 > c.height
    THEN [c EXCEPT !.current_channel = c.current_channel + 1,
                   !.current_row = 0,
                   !.position = 0,
                   !.state = IF c.current_channel + 1 >= c.channels
                             THEN PSD_STATE_DONE ELSE c.state]
    ELSE [c EXCEPT !.position = c.position + c.width,
                   !.current_row = c.current_row + 1]

\* lines 630-640: the cursors move to the next row or the next channel
next_row(c) ==
    IF c.current_row + 1 >= c.height
    THEN [c EXCEPT !.current_channel = c.current_channel + 1,
                   !.current_row = 0,
                   !.position = 0,
                   !.state = IF c.current_channel + 1 >= c.channels
                             THEN PSD_STATE_DONE ELSE c.state]
    ELSE [c EXCEPT !.position = c.position + c.width,
                   !.current_row = c.current_row + 1]

\* lines 623-629, dl being what decompress_line did to the channel buffer
row_decoded(st, dl) ==
    [st EXCEPT !.c = next_row(
                        [st.c EXCEPT !.bytes_read = 0,
                                     !.channels_buffers[st.c.current_channel + 1] = dl.dest]),
               !.fault = FaultJoin(st.fault, dl.fault)]

\* case PSD_STATE_CHANNEL_DATA with RLE compression, once the row is there
rle_row_complete(st, line_length, env) ==
    IF st.c.current_channel < Len(st.c.channels_buffers)
    THEN row_decoded(st, decompress_line(st.c.buffer, line_length,
                            st.c.channels_buffers[st.c.current_channel + 1],
                            st.c.position, env.g))
    ELSE [st EXCEPT !.c = next_row([st.c EXCEPT !.bytes_read = 0]),
                    !.fault = FaultJoin(st.fault, "ub")]

rle_row(st, line_length, fb, env) ==
    IF fb.done THEN rle_row_complete(fed(st, fb), line_length, env) ELSE fed(st, fb)

\* lines 616-622: the row's length is looked up at channel * height + row
rle_lookup(st, idx, env) ==
    rle_row([st EXCEPT !.fault = FaultJoin(st.fault, ReadFault(st.c.lines_lengths, 2 * idx + 1))],
            lines_lengths_at(st.c, idx, env.g),
            feed_buffer(st.c.buffer, st.c.bytes_read, st.data,
                        lines_lengths_at(st.c, idx, env.g)),
            env)

\* one iteration of the while loop: the switch on context->state
Iterate(st, env) ==
    CASE st.c.state = PSD_STATE_HEADER ->
            header_case(st, feed_buffer(st.c.buffer, st.c.bytes_read, st.data,
                                        PSD_HEADER_SIZE), env)
      [] st.c.state = PSD_STATE_COLOR_MODE_BLOCK ->
            block_case(st, env, PSD_STATE_RESOURCES_BLOCK)
      [] st.c.state = PSD_STATE_RESOURCES_BLOCK ->
            block_case(st, env, PSD_STATE_LAYERS_BLOCK)
      [] st.c.state = PSD_STATE_LAYERS_BLOCK ->
            block_case(st, env, PSD_STATE_COMPRESSION)
      [] st.c.state = PSD_STATE_COMPRESSION ->
            compression_case(st, feed_buffer(st.c.buffer, st.c.bytes_read, st.data, 2), env)
      [] st.c.state = PSD_STATE_LINES_LENGTHS ->
            lines_case(st, feed_buffer(st.c.lines_lengths, st.c.bytes_read, st.data,
                                       2 * st.c.height * st.c.channels), env)
      [] st.c.state = PSD_STATE_CHANNEL_DATA /\ st.c.compression = PSD_COMPRESSION_RLE ->
            rle_lookup(st, st.c.current_channel * st.c.height + st.c.current_row, env)
      [] st.c.state = PSD_STATE_CHANNEL_DATA /\ st.c.compression # PSD_COMPRESSION_RLE ->
            fed(st, feed_buffer(st.c.buffer, st.c.bytes_read, st.data, st.c.width))
      [] OTHER -> [st EXCEPT !.data = << >>]

\* while (size > 0) { ... } return TRUE;  an iteration that returns nothing,
\* consumes nothing and changes nothing repeats for ever: ret = "hang"
RECURSIVE load_loop(_, _)

\* n, what an iteration that began in phase `from` left, with the phase it
\* entered, if any, added to the session's record of phases
entered(from, n) ==
    IF n.c.state = from THEN n
    ELSE [n EXCEPT !.c.phases = Append(n.c.phases,
                        [state |-> n.c.state, at |-> n.c.consumed])]

load_next(st, n, env) ==
    IF n = st THEN [st EXCEPT !.ret = "hang"]
    ELSE IF n.fault = "segv" THEN [entered(st.c.state, n) EXCEPT !.ret = "FALSE"]
    ELSE load_loop(entered(st.c.state, n), env)

load_loop(st, env) ==
    IF st.ret # "loop" THEN st
    ELSE IF Len(st.data) = 0 THEN [st EXCEPT !.ret = "TRUE"]
    ELSE load_next(st, Iterate(st, env), env)

load_increment(c, counter, data, env) ==
    load_loop([c |-> c, data |-> data, counter |-> counter,
               ret |-> "loop", error |-> "none", fault |-> "none",
               asked |-> << >>], env)

\* ------------------------------------------------------------------------
\* gdk_pixbuf__psd_image_stop_load
\* ------------------------------------------------------------------------
\* lines 461-468: the first 3 * width bytes of every row are cleared
clear_pixels(pb, c) ==
    [pb EXCEPT !.pixels =
        [n \in 1..Len(pb.pixels) |->
            LET row == (n - 1) \div pb.rowstride
                off == (n - 1) % pb.rowstride
            IN  IF row < c.height /\ off < 3 * c.width THEN 0 ELSE pb.pixels[n]]]

\* lines 471-478 with the channels in the order 2, 1, 0
copy_channel_swapped(pb, c, i, g) ==
    [pb EXCEPT !.pixels =
        [n \in 1..Len(pb.pixels) |->
            LET row == (n - 1) \div pb.rowstride
                off == (n - 1) % pb.rowstride
            IN  IF row < c.height /\ off < 3 * c.width /\ off % 3 = 2 - i
                THEN IF i < Len(c.channels_buffers)
                     THEN ReadByte(c.channels_buffers[i + 1], c.width * row + off \div 3, g)
                     ELSE g
                ELSE pb.pixels[n]]]

\* lines 471-478 for one i: channel i goes to byte i of every pixel
copy_channel(pb, c, i, g) ==
    [pb EXCEPT !.pixels =
        [n \in 1..Len(pb.pixels) |->
            LET row == (n - 1) \div pb.rowstride
                off == (n - 1) % pb.rowstride
            IN  IF row < c.height /\ off < 3 * c.width /\ off % 3 = i
                THEN IF i < Len(c.channels_buffers)
                     THEN ReadByte(c.channels_buffers[i + 1], c.width * row + off \div 3, g)
                     ELSE g
                ELSE pb.pixels[n]]]

\* channels_buffers[i] is read for i = 0, 1, 2 whatever the channel count
copy_fault(c) ==
    IF Len(c.channels_buffers) < 3 THEN "ub" ELSE "none"

\* line 449
stop_done_early(c) == c.state >= PSD_STATE_CHANNEL_DATA

stop_done_always(c) == TRUE

stop_done(c) == c.state = PSD_STATE_DONE

\* lines 457-479
compose(c, g) ==
    copy_channel(copy_channel(copy_channel(clear_pixels(c.pixbuf, c), c, 0, g), c, 1, g), c, 2, g)

stop_load(c, g) ==
    [retval   |-> stop_done(c),
     error    |-> IF stop_done(c) THEN "none" ELSE "corrupt",
     pixbuf   |-> IF stop_done(c) THEN compose(c, g) ELSE c.pixbuf,
     composed |-> IF stop_done(c) THEN 1 ELSE 0,
     fault    |-> IF stop_done(c) THEN copy_fault(c) ELSE "none",
     live     |-> c.live \ {Block("buffer"), Block("ctx")}]

\* ------------------------------------------------------------------------
\* Input streams
\* ------------------------------------------------------------------------
BE16(v) == << (v \div 256) % 256, v % 256 >>
BE32(v) == << (v \div 16777216) % 256, (v \div 65536) % 256, (v \div 256) % 256, v % 256 >>

RECURSIVE Flatten(_)
Flatten(ss) == IF ss = << >> THEN << >> ELSE Head(ss) \o Flatten(Tail(ss))

\* the 26 header bytes: "8BPS", version 1, six reserved bytes, the fields
HeaderBytes(k) ==
    << 56, 66, 80, 83 >> \o BE16(1) \o << 0, 0, 0, 0, 0, 0 >>
        \o BE16(k.channels) \o BE32(k.rows) \o BE32(k.columns)
        \o BE16(k.depth) \o BE16(k.color_mode)

\* a length-prefixed block with a payload of len bytes
BlockBytes(len) == BE32(len) \o [i \in 1..len |-> 200 + i]

\* sample idx of channel ch of the test image
Sample(ch, idx) == (10 * (idx + 1) + 30 * ch) % 256

\* one row of one channel: the line the case gives for every row, if it
\* gives one, or else the row of the test image raw, as a literal run, as a
\* replicate run of the row's first sample, or as a literal run after a
\* no-op control byte
RawRow(k, ch, row) == [j \in 1..k.columns |-> Sample(ch, k.columns * row + j - 1)]

RowBytes(k, ch, row) ==
    IF k.line # << >> THEN k.line
    ELSE IF k.columns = 0 THEN << >>
    ELSE IF k.compression # PSD_COMPRESSION_RLE THEN RawRow(k, ch, row)
    ELSE IF k.enc = "lit" THEN << k.columns - 1 >> \o RawRow(k, ch, row)
    ELSE IF k.enc = "rep" THEN << (257 - k.columns) % 256, Sample(ch, k.columns * row) >>
    ELSE << 128, k.columns - 1 >> \o RawRow(k, ch, row)

\* the (channel, row) pairs in stream order
RowOrder(k) == [n \in 1..(k.channels * k.rows) |->
                    [ch |-> (n - 1) \div k.rows, row |-> (n - 1) % k.rows]]

StreamBytes(k) ==
    HeaderBytes(k)
    \o BlockBytes(k.blocks[1]) \o BlockBytes(k.blocks[2]) \o BlockBytes(k.blocks[3])
    \o BE16(k.compression)
    \o (IF k.compression = PSD_COMPRESSION_RLE
        THEN Flatten([n \in 1..(k.channels * k.rows) |->
                        BE16(Len(RowBytes(k, RowOrder(k)[n].ch, RowOrder(k)[n].row)))])
        ELSE << >>)
    \o Flatten([n \in 1..(k.channels * k.rows) |->
                    RowBytes(k, RowOrder(k)[n].ch, RowOrder(k)[n].row)])
    \o [i \in 1..k.trailing |-> 99]

\* the image every other input is a variation of: 3 channels, one row of
\* MaxWidth pixels, 8 bits, RGB, three empty blocks, RLE literal rows
BaseCase ==
    [channels |-> 3, rows |-> 1, columns |-> MaxWidth, depth |-> 8,
     color_mode |-> PSD_MODE_RGB, blocks |-> << 0, 0, 0 >>,
     compression |-> PSD_COMPRESSION_RLE, enc |-> "lit", line |-> << >>,
     trailing |-> 0]

Cases ==
    {BaseCase}
    \cup {[BaseCase EXCEPT !.columns = w] : w \in 0..MaxWidth}
    \cup {[BaseCase EXCEPT !.rows = h] : h \in {0, 2}}
    \cup {[BaseCase EXCEPT !.channels = n] : n \in {0, 1, 4}}
    \cup {[BaseCase EXCEPT !.depth = d] : d \in {16, 32}}
    \cup {[BaseCase EXCEPT !.color_mode = m, !.channels = n] :
            m \in {PSD_MODE_GRAYSCALE, PSD_MODE_INDEXED, PSD_MODE_LAB}, n \in {1, 3}}
    \cup {[BaseCase EXCEPT !.color_mode = PSD_MODE_DUOTONE, !.channels = 1]}
    \cup {[BaseCase EXCEPT !.blocks = b] :
            b \in UNION {{<< a, 0, 0 >>, << 0, a, 0 >>, << 0, 0, a >>, << a, a, a >>} :
                            a \in 1..MaxBlockLen}}
    \cup {[BaseCase EXCEPT !.compression = t, !.columns = w] :
            t \in {0, 2}, w \in 1..(MaxWidth + 1)}
    \cup {[BaseCase EXCEPT !.enc = e] : e \in {"rep", "nop"}}
    \cup {[BaseCase EXCEPT !.trailing = 1]}

\* a stream this loader is meant to decode: supported mode and depth, the
\* channels its mode needs, positive dimensions, a known compression type
ValidCase(k) ==
    /\ k.color_mode \in {PSD_MODE_GRAYSCALE, PSD_MODE_RGB, PSD_MODE_CMYK, PSD_MODE_DUOTONE}
    /\ k.depth \in {8, 16}
    /\ k.channels >= 1 /\ k.rows >= 1 /\ k.columns >= 1
    /\ k.compression \in {PSD_COMPRESSION_NONE, PSD_COMPRESSION_RLE}

\* ------------------------------------------------------------------------
\* The host and its sessions
\* ------------------------------------------------------------------------
VARIABLES
    proc,      \* "running", "hung" (a call never returns) or "crashed"
    counter,   \* skip_block's static counter, shared by all sessions
    life,      \* per session: "live" or "stopped"
    kase,      \* per session: the case its stream was built from
    stream,    \* per session: the bytes the host delivers
    chunking,  \* per session: how the host cuts them into feed calls
    pos,       \* per session: how many of them it has delivered
    ctx,       \* per session: the PsdContext
    alone,     \* per session: the context and counter of the same calls
               \* made in a process that has no other session (SpecMulti)
    last,      \* per session: the last call and what it returned
    failed,    \* per session: the errors its feed calls have returned
    result     \* per session: what stop_load returned and left behind

vars == << proc, counter, life, kase, stream, chunking, pos, ctx, alone, last, failed, result >>

Sessions == {"A", "B"}

\* what an uninitialised or out-of-bounds read may deliver
Garbage == {0, 255}

\* How the host cuts a stream into feed calls: a first chunk of `first` bytes
\* (none when 0), then chunks of `rest` bytes (all that remains when 0).
\* The first chunk is the header, the header with the three blocks, or all
\* but the last byte; the others are single bytes, 7 bytes or the remainder.
HeadLen(k) == PSD_HEADER_SIZE + 12 + k.blocks[1] + k.blocks[2] + k.blocks[3]

Chunkings(k) ==
    {[first |-> 0, rest |-> r] : r \in {0, 1, 7}}
    \cup {[first |-> PSD_HEADER_SIZE, rest |-> 0]}
    \cup {[first |-> HeadLen(k), rest |-> r] : r \in {1, 7}}
    \cup {[first |-> Len(StreamBytes(k)) - 1, rest |-> 1]}

ChunkSize(ch, p, len) ==
    LET want == IF p = 0 /\ ch.first > 0 THEN ch.first
                ELSE IF ch.rest = 0 THEN len - p ELSE ch.rest
    IN  Min(want, len - p)

Born == DOMAIN ctx

Init ==
    /\ proc = "running"
    /\ counter = 0
    /\ life = << >>
    /\ kase = << >>
    /\ stream = << >>
    /\ chunking = << >>
    /\ pos = << >>
    /\ ctx = << >>
    /\ alone = << >>
    /\ last = << >>
    /\ failed = << >>
    /\ result = << >>

NoResult == [retval |-> FALSE, error |-> "none", pixbuf |-> NullPixbuf,
             composed |-> 0, fault |-> "none", live |-> {}]

\* gdk_pixbuf__psd_image_begin_load; cuts maps every case the host may load
\* to the chunkings it may use for it
BeginLoad(s, cuts) ==
    /\ proc = "running"
    /\ s \notin Born
    /\ \E k \in DOMAIN cuts, has_size_func \in BOOLEAN :
        /\ \E ch \in cuts[k] : chunking' = chunking @@ (s :> ch)
        /\ ctx' = ctx @@ (s :> begin_load(has_size_func))
        /\ alone' = alone @@ (s :> [c |-> begin_load(has_size_func), counter |-> 0,
                                    ret |-> "TRUE"])
        /\ kase' = kase @@ (s :> k)
        /\ stream' = stream @@ (s :> StreamBytes(k))
    /\ life' = life @@ (s :> "live")
    /\ pos' = pos @@ (s :> 0)
    /\ last' = last @@ (s :> [op |-> "begin", ret |-> "TRUE", error |-> "none",
                              from |-> PSD_STATE_HEADER, asked |-> << >>])
    /\ failed' = failed @@ (s :> {})
    /\ result' = result @@ (s :> NoResult)
    /\ UNCHANGED << proc, counter >>

\* how a call that met fault f and would return ret can end: it returns ret
\* (or never returns, ret = "hang") unless a null pointer was dereferenced,
\* and it can crash whenever its behaviour was undefined
Outcomes(ret, f) ==
    (IF f # "segv" THEN {ret} ELSE {}) \cup (IF f # "none" THEN {"crash"} ELSE {})

ProcAfter(o) ==
    IF o = "crash" THEN "crashed" ELSE IF o = "hang" THEN "hung" ELSE "running"

\* a feed call of session s that consumed n bytes: r is what
\* load_increment made of the session, ra what it made of the session alone
FeedReturns(s, n, r, ra, shadow) ==
    /\ ctx' = [ctx EXCEPT ![s] = r.c]
    /\ counter' = r.counter
    /\ alone' = IF shadow
                THEN [alone EXCEPT ![s] = [c |-> ra.c, counter |-> ra.counter,
                                           ret |-> ra.ret]]
                ELSE alone
    /\ pos' = [pos EXCEPT ![s] = pos[s] + n]
    /\ \E o \in Outcomes(r.ret, r.fault) :
        /\ proc' = ProcAfter(o)
        /\ last' = [last EXCEPT ![s] = [op |-> "feed", ret |-> o,
                                        error |-> IF o = "FALSE" THEN r.error ELSE "none",
                                        from |-> ctx[s].state, asked |-> r.asked]]
        /\ failed' = [failed EXCEPT ![s] = failed[s] \cup
                        (IF o = "FALSE" /\ r.error # "none" THEN {r.error} ELSE {})]

FeedChunk(s, n, env, shadow) ==
    FeedReturns(s, n,
        load_increment(ctx[s], counter, SubSeq(stream[s], pos[s] + 1, pos[s] + n), env),
        IF shadow
        THEN load_increment(alone[s].c, alone[s].counter,
                            SubSeq(stream[s], pos[s] + 1, pos[s] + n), env)
        ELSE alone[s],
        shadow)

\* gdk_pixbuf__psd_image_load_increment on the next chunk of the stream;
\* alone follows the session when shadow is set
Feed(s, shadow) ==
    /\ proc = "running"
    /\ s \in Born
    /\ life[s] = "live"
    /\ pos[s] < Len(stream[s])
    /\ \E answer \in SizeAnswers, g \in Garbage :
        FeedChunk(s, ChunkSize(chunking[s], pos[s], Len(stream[s])),
                  [answer |-> answer, g |-> g], shadow)
    /\ UNCHANGED << life, kase, stream, chunking, result >>

\* a call of stop_load on session s, r being what it computed; a call that
\* crashes returns nothing
StopReturns(s, r) ==
    \E o \in Outcomes(IF r.retval THEN "TRUE" ELSE "FALSE", r.fault) :
        /\ proc' = ProcAfter(o)
        /\ result' = [result EXCEPT ![s] = IF o = "crash" THEN NoResult ELSE r]
        /\ life' = [life EXCEPT ![s] = IF o = "crash" THEN "live" ELSE "stopped"]
        /\ last' = [last EXCEPT ![s] = [op |-> "stop", ret |-> o,
                                        error |-> IF o = "crash" THEN "none" ELSE r.error,
                                        from |-> ctx[s].state, asked |-> << >>]]

\* gdk_pixbuf__psd_image_stop_load
StopLoad(s) ==
    /\ proc = "running"
    /\ s \in Born
    /\ life[s] = "live"
    /\ \E g \in Garbage : StopReturns(s, stop_load(ctx[s], g))
    /\ UNCHANGED << counter, kase, stream, chunking, pos, ctx, alone, failed >>

\* one session
Next ==
    \/ BeginLoad("A", [k \in Cases |-> Chunkings(k)])
    \/ Feed("A", FALSE)
    \/ StopLoad("A")

Spec == Init /\ [][Next]_vars

\* two sessions in one process, their calls interleaved; both decode an image
\* whose first block has a payload of MultiBlockLen bytes, fed whole or as
\* the header followed by chunks of 7 bytes, which cut the payload in two
MultiBlockLen == 5

MultiCases == {[BaseCase EXCEPT !.blocks = << MultiBlockLen, 0, 0 >>]}

MultiChunkings(k) == {[first |-> 0, rest |-> 0], [first |-> PSD_HEADER_SIZE, rest |-> 7]}

NextMulti ==
    \E s \in Sessions :
        \/ BeginLoad(s, [k \in MultiCases |-> MultiChunkings(k)])
        \/ Feed(s, TRUE)
        \/ StopLoad(s)

SpecMulti == Init /\ [][NextMulti]_vars

\* the PackBits lines that decode to exactly n bytes, made of literal runs,
\* replicate runs and at most nops no-op control bytes, with the data bytes
\* 127 and 128
DecodeBytes == {127, 128}

RECURSIVE PackBitsLines(_, _)
PackBitsLines(n, nops) ==
    (IF n = 0 THEN {<< >>} ELSE {})
    \cup UNION {{<< m - 1 >> \o d \o rest :
                    d \in [1..m -> DecodeBytes], rest \in PackBitsLines(n - m, nops)} :
                m \in 1..n}
    \cup UNION {{<< 257 - m, b >> \o rest :
                    b \in DecodeBytes, rest \in PackBitsLines(n - m, nops)} :
                m \in 2..n}
    \cup (IF nops > 0 THEN {<< 128 >> \o rest : rest \in PackBitsLines(n, nops - 1)}
          ELSE {})

\* one session decoding a 3-channel image of one row whose three rows are
\* all the same line, fed whole or as the header and blocks followed by the
\* rest
DecodeCases ==
    UNION {{[BaseCase EXCEPT !.columns = w, !.line = l] : l \in PackBitsLines(w, MaxNops)} :
            w \in 1..MaxWidth}

DecodeChunkings(k) == {[first |-> 0, rest |-> 0], [first |-> HeadLen(k), rest |-> 0]}

NextDecode ==
    \/ BeginLoad("A", [k \in DecodeCases |-> DecodeChunkings(k)])
    \/ Feed("A", FALSE)
    \/ StopLoad("A")

SpecDecode == Init /\ [][NextDecode]_vars

\* ------------------------------------------------------------------------
\* Properties
\* ------------------------------------------------------------------------
Returned(s) == s \in Born /\ life[s] = "stopped"

\* the session after begin and one feed of the whole stream, with a
\* size_func that leaves the dimensions alone
OneShot(s) ==
    load_increment(begin_load(ctx[s].size_func), 0, stream[s],
                   [answer |-> "keep", g |-> 0])

\* session s, fed in chunks, against `one`, the same stream fed in one call
SameAsOneShot(s, one) ==
    (/\ ValidCase(kase[s])
     /\ proc = "running"
     /\ pos[s] = Len(stream[s])
     /\ "veto" \notin failed[s]
     /\ one.ret = "TRUE" /\ one.fault = "none"
     /\ one.c.state = PSD_STATE_DONE)
    => /\ ctx[s].state = one.c.state
       /\ ctx[s].channels_buffers = one.c.channels_buffers
       /\ Returned(s) =>
            /\ result[s].retval = stop_load(one.c, 0).retval
            /\ result[s].fault = "none" => result[s].pixbuf = stop_load(one.c, 0).pixbuf

\* C1: chunking invariance.  For a valid stream that one feed call decodes,
\* once the host has delivered every byte in chunks the session has the
\* phase and the channel buffers of the one-feed session, and finish leaves
\* the same result and, where composition reads only buffers that exist,
\* the same pixels.
C1_ChunkingInvariance ==
    \A s \in Born : SameAsOneShot(s, OneShot(s))

\* C2: finish returns success exactly when the phase is Done; before Done it
\* returns the corrupt/incomplete error, which no feed call ever reports.
C2_FinishIffDone ==
    \A s \in Born :
        /\ Returned(s) =>
            /\ result[s].retval <=> ctx[s].state = PSD_STATE_DONE
            /\ last[s].ret = (IF ctx[s].state = PSD_STATE_DONE THEN "TRUE" ELSE "FALSE")
            /\ ctx[s].state # PSD_STATE_DONE => result[s].error = "corrupt"
        /\ last[s].op = "feed" => last[s].error # "corrupt"
        /\ "corrupt" \notin failed[s]

\* the header and the three blocks were fed, nothing more, and finish
\* reported the stream incomplete; and finish succeeded on a complete stream
C2_Witness ==
    /\ Returned("A")
    /\ pos["A"] = HeadLen(kase["A"])
    /\ ctx["A"].state = PSD_STATE_COMPRESSION
    /\ ~result["A"].retval

C2_WitnessDone ==
    /\ Returned("A")
    /\ ctx["A"].state = PSD_STATE_DONE
    /\ result["A"].retval

\* the header of session s declares a mode or a depth the loader does not
\* support
Unsupported(k) ==
    \/ k.color_mode \notin {PSD_MODE_GRAYSCALE, PSD_MODE_RGB, PSD_MODE_CMYK, PSD_MODE_DUOTONE}
    \/ k.depth \notin {8, 16}

NothingAllocated(c) ==
    /\ c.channels_buffers = << >>
    /\ c.lines_lengths.null
    /\ c.pixbuf.null
    /\ c.live = {Block("ctx"), Block("buffer")}

\* C3: once the 26 bytes of a header with an unsupported colour mode or bit
\* depth have been fed, a feed call has failed, the phase is still Header and
\* no channel buffer, line-length table or pixel buffer exists.
C3_UnsupportedRejected ==
    \A s \in Born :
        (Unsupported(kase[s]) /\ pos[s] >= PSD_HEADER_SIZE /\ proc = "running")
        => /\ failed[s] # {}
           /\ ctx[s].state = PSD_STATE_HEADER
           /\ NothingAllocated(ctx[s])

\* C4: when size_func is present and leaves a zero width or height as the
\* header completes, the feed call fails, the phase is still Header,
\* prepared_func has not been called and no channel buffer exists.
C4_DimensionVeto ==
    \A s \in Born :
        (/\ last[s].op = "feed"
         /\ last[s].ret # "crash"
         /\ last[s].asked # << >>
         /\ (last[s].asked[1] = 0 \/ last[s].asked[2] = 0))
        => /\ last[s].ret = "FALSE"
           /\ ctx[s].state = PSD_STATE_HEADER
           /\ ctx[s].prepared_log = << >>
           /\ ctx[s].channels_buffers = << >>
           /\ \A b \in ctx[s].live : b[1] \notin {"channel", "channels_buffers"}

\* size_func zeroed the height of a header with positive dimensions
C4_Witness ==
    /\ "A" \in Born
    /\ last["A"].op = "feed"
    /\ last["A"].asked # << >>
    /\ last["A"].asked[1] > 0 /\ last["A"].asked[2] = 0
    /\ last["A"].ret = "FALSE"
    /\ ctx["A"].state = PSD_STATE_HEADER

\* C5: after a feed call failed with a veto the phase stays Header, after one
\* failed with an unsupported compression type it stays Compression, and
\* finish does not succeed on such a session.
C5_FailurePermanent ==
    \A s \in Born :
        /\ "veto" \in failed[s] => ctx[s].state = PSD_STATE_HEADER
        /\ "unknown_type" \in failed[s] => ctx[s].state = PSD_STATE_COMPRESSION
        /\ (failed[s] \cap {"veto", "unknown_type"} # {} /\ Returned(s)) => ~result[s].retval

\* C6: after finish has returned, none of the blocks the session allocated
\* is live: the accumulation buffer, the line-length table, the array of
\* channel buffers and every channel buffer.
SessionBlocks(b) == b[1] \in {"buffer", "lines_lengths", "channels_buffers", "channel"}

C6_AllReleased ==
    \A s \in Born :
        Returned(s) => \A b \in result[s].live : ~SessionBlocks(b)

\* C7: session independence.  Whatever calls of the other session come in
\* between, every session is in the state, and its last feed returned the
\* value, that the same calls give in a process with no other session.
C7_SessionIndependence ==
    \A s \in Born :
        /\ ctx[s] = alone[s].c
        /\ (last[s].op = "feed" /\ last[s].ret # "crash") => last[s].ret = alone[s].ret

\* both sessions are past their first block and the static counter is not
\* what session A alone would have left in it
C7_Witness ==
    /\ Born = Sessions
    /\ ctx["A"].state > PSD_STATE_COLOR_MODE_BLOCK
    /\ ctx["B"].state > PSD_STATE_COLOR_MODE_BLOCK
    /\ counter # alone["A"].counter

\* C8: prepared_func is called at most once, and exactly once in a session
\* that has left the Header phase; when it is called the line-length table
\* and every channel buffer are allocated and exactly the 26 header bytes
\* have been consumed.
C8_PreparedOnce ==
    \A s \in Born :
        /\ Len(ctx[s].prepared_log) <= 1
        /\ ctx[s].state # PSD_STATE_HEADER => Len(ctx[s].prepared_log) = 1
        /\ \A n \in 1..Len(ctx[s].prepared_log) :
            LET e == ctx[s].prepared_log[n]
            IN  /\ Block("lines_lengths") \in e.live
                /\ Block("channels_buffers") \in e.live
                /\ \A i \in 0..(ctx[s].channels - 1) : ChannelBlock(i) \in e.live
                /\ e.consumed = PSD_HEADER_SIZE
                /\ e.state = PSD_STATE_HEADER

C8_Witness ==
    /\ "A" \in Born
    /\ ctx["A"].state = PSD_STATE_CHANNEL_DATA
    /\ Len(ctx["A"].prepared_log) = 1
    /\ ctx["A"].channels = 3

\* C9: finish composes at most once and only in phase Done, where every
\* channel has been read; a session stopped before Done leaves the pixel
\* buffer as it was and does not report success.
C9_ComposeOnlyWhenDone ==
    \A s \in Born :
        Returned(s) =>
            /\ result[s].composed <= 1
            /\ result[s].composed = 1 =>
                /\ ctx[s].state = PSD_STATE_DONE
                /\ ctx[s].current_channel = ctx[s].channels
                /\ ctx[s].current_row = 0
            /\ ctx[s].state # PSD_STATE_DONE =>
                /\ result[s].composed = 0
                /\ result[s].pixbuf = ctx[s].pixbuf
                /\ ~result[s].retval

\* finish was called while channel data was still being read
C9_Witness ==
    /\ Returned("A")
    /\ ctx["A"].state = PSD_STATE_CHANNEL_DATA
    /\ ctx["A"].current_channel > 0
    /\ result["A"].composed = 0

\* C10: RGB composition.  For an 8-bit RGB image with at least 3 channels
\* that reached Done, after finish the byte at i * rowstride + 3 * j + k is
\* sample i * width + j of channel k, and the bytes of a row from 3 * width
\* on are not written.
RgbDone(s) ==
    /\ Returned(s)
    /\ result[s].retval
    /\ ctx[s].color_mode = PSD_MODE_RGB
    /\ ctx[s].depth = 8
    /\ ctx[s].channels >= 3

C10_RgbComposition ==
    \A s \in Born :
        RgbDone(s) =>
            LET pb == result[s].pixbuf
                c == ctx[s]
            IN  /\ Len(pb.pixels) = c.height * pb.rowstride
                /\ \A i \in 0..(c.height - 1) :
                    /\ \A j \in 0..(c.width - 1), k \in 0..2 :
                        pb.pixels[i * pb.rowstride + 3 * j + k + 1]
                            = c.channels_buffers[k + 1].mem[i * c.width + j + 1]
                    /\ \A o \in (3 * c.width)..(pb.rowstride - 1) :
                        pb.pixels[i * pb.rowstride + o + 1] = U

\* channels [10,20,30], [40,50,60], [70,80,90] of a 3 x 1 image
C10_Witness ==
    /\ RgbDone("A")
    /\ ctx["A"].width = 3 /\ ctx["A"].height = 1
    /\ ctx["A"].channels_buffers[1].mem = << 10, 20, 30 >>
    /\ ctx["A"].channels_buffers[2].mem = << 40, 50, 60 >>
    /\ ctx["A"].channels_buffers[3].mem = << 70, 80, 90 >>
    /\ result["A"].pixbuf.pixels = << 10, 40, 70, 20, 50, 80, 30, 60, 90, U, U, U >>

\* C11: Grayscale and Duotone composition.  When finish is called on a
\* Grayscale or Duotone session with one channel that reached Done, it reads
\* no channel buffer but channel 0, so it returns and its behaviour is
\* defined, and the three bytes of pixel j of row i all hold sample
\* i * width + j of channel 0.
GrayDone(s) ==
    /\ last[s].op = "stop"
    /\ ctx[s].state = PSD_STATE_DONE
    /\ ctx[s].color_mode \in {PSD_MODE_GRAYSCALE, PSD_MODE_DUOTONE}
    /\ ctx[s].channels = 1

C11_GrayComposition ==
    \A s \in Born :
        GrayDone(s) =>
            /\ last[s].ret # "crash"
            /\ result[s].fault = "none"
            /\ \A i \in 0..(ctx[s].height - 1), j \in 0..(ctx[s].width - 1), k \in 0..2 :
                    result[s].pixbuf.pixels[i * result[s].pixbuf.rowstride + 3 * j + k + 1]
                        = ctx[s].channels_buffers[1].mem[i * ctx[s].width + j + 1]

\* the stream offset at which block i (1 to 3) of case k ends
BlockEnd(k, i) ==
    PSD_HEADER_SIZE + 4 * i
        + (IF i >= 1 THEN k.blocks[1] ELSE 0)
        + (IF i >= 2 THEN k.blocks[2] ELSE 0)
        + (IF i >= 3 THEN k.blocks[3] ELSE 0)

\* the numbers of consumed bytes at which session c entered phase p
EnteredAt(c, p) == {c.phases[n].at : n \in {m \in 1..Len(c.phases) : c.phases[m].state = p}}

\* C12: block skipper.  In a session whose header was accepted by the feed
\* call that completed it, however the stream is cut into feed calls, the
\* phase after block i is entered when
\* exactly the bytes up to the end of block i are consumed, it is entered
\* by the call that delivers the block's last byte, and while a block is
\* being skipped every byte delivered is consumed.
C12_BlockSkipper ==
    \A s \in Born :
        (proc = "running" /\ failed[s] = {} /\ ctx[s].state # PSD_STATE_HEADER) =>
            /\ \A i \in 1..3 :
                /\ EnteredAt(ctx[s], PSD_STATE_COLOR_MODE_BLOCK + i) \subseteq {BlockEnd(kase[s], i)}
                /\ pos[s] >= BlockEnd(kase[s], i)
                    => EnteredAt(ctx[s], PSD_STATE_COLOR_MODE_BLOCK + i) # {}
            /\ ctx[s].state \in PSD_STATE_COLOR_MODE_BLOCK..PSD_STATE_LAYERS_BLOCK
                => ctx[s].consumed = pos[s]

\* the phases session c has been in
Visited(c) == {c.phases[n].state : n \in 1..Len(c.phases)}

\* the phases of c follow each other in the order of the enumeration, none
\* left out but Line Lengths, which is left out exactly when the
\* compression type is 0
PhasesInOrder(c) ==
    /\ c.phases[Len(c.phases)].state = c.state
    /\ \A n \in 1..(Len(c.phases) - 1) :
        IF c.phases[n].state = PSD_STATE_COMPRESSION
        THEN /\ c.compression \in {PSD_COMPRESSION_RLE, PSD_COMPRESSION_NONE}
             /\ c.phases[n + 1].state = (IF c.compression = PSD_COMPRESSION_RLE
                                         THEN PSD_STATE_LINES_LENGTHS
                                         ELSE PSD_STATE_CHANNEL_DATA)
        ELSE c.phases[n + 1].state = c.phases[n].state + 1

\* a call on session s: the phase does not move back, and a feed call in
\* Done returns TRUE and leaves the session as it was
PhaseStep(s) ==
    /\ ctx'[s].state >= ctx[s].state
    /\ (ctx[s].state = PSD_STATE_DONE /\ pos'[s] # pos[s])
        => /\ ctx'[s] = ctx[s]
           /\ last'[s].op = "feed" /\ last'[s].ret = "TRUE"

\* C13: the phase only moves forward through Header, Color-Mode Block,
\* Resources Block, Layers Block, Compression, Line Lengths, Channel Data and
\* Done; Line Lengths is visited exactly when the compression type is RLE;
\* and a feed call in Done returns success and changes no session field.
C13_ForwardPhases ==
    /\ [](\A s \in Born :
            /\ PhasesInOrder(ctx[s])
            /\ PSD_STATE_LINES_LENGTHS \in Visited(ctx[s])
                => ctx[s].compression = PSD_COMPRESSION_RLE
            /\ PSD_STATE_CHANNEL_DATA \in Visited(ctx[s])
                => (PSD_STATE_LINES_LENGTHS \in Visited(ctx[s])
                        <=> ctx[s].compression = PSD_COMPRESSION_RLE))
    /\ [][\A s \in Born : PhaseStep(s)]_vars

\* a byte was fed to a session that had reached Done through Line Lengths
C13_Witness ==
    /\ "A" \in Born
    /\ last["A"].op = "feed" /\ last["A"].from = PSD_STATE_DONE
    /\ last["A"].ret = "TRUE"
    /\ PSD_STATE_LINES_LENGTHS \in Visited(ctx["A"])

\* a session went from Compression straight to Channel Data
C13_WitnessNone ==
    /\ "A" \in Born
    /\ ctx["A"].state = PSD_STATE_CHANNEL_DATA
    /\ ctx["A"].compression = PSD_COMPRESSION_NONE
    /\ PSD_STATE_LINES_LENGTHS \notin Visited(ctx["A"])

\* C14: every feed call terminates: no call is left in its loop for ever.
C14_FeedTerminates == proc # "hung"

\* the samples of channel ch of case k, row after row
RawChannel(k, ch) == [n \in 1..(k.columns * k.rows) |-> Sample(ch, n - 1)]

\* C15: uncompressed channel data.  Once every byte of a valid stream of
\* compression type 0 has been delivered, no call having failed, every call
\* has returned, the phase is Done, every channel buffer holds the rows of
\* its channel as they are in the stream, and finish succeeds.
C15_Uncompressed ==
    \A s \in Born :
        (/\ ValidCase(kase[s])
         /\ kase[s].compression = PSD_COMPRESSION_NONE
         /\ failed[s] = {}
         /\ pos[s] = Len(stream[s]))
        => /\ proc = "running"
           /\ ctx[s].state = PSD_STATE_DONE
           /\ \A ch \in 0..(kase[s].channels - 1) :
                ctx[s].channels_buffers[ch + 1].mem = RawChannel(kase[s], ch)
           /\ Returned(s) => result[s].retval

\* the number of bytes the accumulator is asked to gather in the phase
\* session c is in
Target(c) ==
    CASE c.state = PSD_STATE_HEADER -> PSD_HEADER_SIZE
      [] c.state \in PSD_STATE_COLOR_MODE_BLOCK..PSD_STATE_LAYERS_BLOCK -> 4
      [] c.state = PSD_STATE_COMPRESSION -> 2
      [] c.state = PSD_STATE_LINES_LENGTHS -> 2 * c.height * c.channels
      [] c.state = PSD_STATE_CHANNEL_DATA /\ c.compression = PSD_COMPRESSION_RLE ->
            lines_lengths_at(c, c.current_channel * c.height + c.current_row, 0)
      [] c.state = PSD_STATE_CHANNEL_DATA /\ c.compression # PSD_COMPRESSION_RLE -> c.width
      [] OTHER -> 0

\* the block the accumulator writes to in the phase session c is in
Destination(c) ==
    IF c.state = PSD_STATE_LINES_LENGTHS THEN c.lines_lengths ELSE c.buffer

\* C18: in every phase before Done the number of bytes accumulated is at
\* most the number the phase gathers: 26, 4, 2, 2 * height * channels or the
\* length of the row.
C18_FillWithinTarget ==
    \A s \in Born :
        ctx[s].state # PSD_STATE_DONE => ctx[s].bytes_read <= Target(ctx[s])

\* C19: in every phase before Done of a session none of whose calls failed,
\* the block the accumulator writes to is allocated with at least as many
\* bytes as the phase gathers.
C19_CapacityCoversTarget ==
    \A s \in Born :
        (ctx[s].state # PSD_STATE_DONE /\ failed[s] = {})
        => Destination(ctx[s]).cap >= Target(ctx[s])

\* the PackBits decoding of a line, from the definition of the format: a
\* control byte n < 128 is followed by n + 1 literal bytes, a control byte
\* n > 128 by one byte to be written 257 - n times, and 128 stands alone;
\* ok tells that the line ends with a complete packet
RECURSIVE PackBits(_)
PackBitsJoin(bytes, d) == [out |-> bytes \o d.out, ok |-> d.ok]

PackBitsPacket(n, rest) ==
    IF n = 128 THEN PackBits(rest)
    ELSE IF n < 128 THEN
        IF Len(rest) < n + 1 THEN [out |-> << >>, ok |-> FALSE]
        ELSE PackBitsJoin(SubSeq(rest, 1, n + 1), PackBits(SubSeq(rest, n + 2, Len(rest))))
    ELSE
        IF Len(rest) < 1 THEN [out |-> << >>, ok |-> FALSE]
        ELSE PackBitsJoin([i \in 1..(257 - n) |-> rest[1]], PackBits(Tail(rest)))

PackBits(line) ==
    IF line = << >> THEN [out |-> << >>, ok |-> TRUE]
    ELSE PackBitsPacket(Head(line), Tail(line))

\* the number of rows session c has completed
Cursor(c) == c.current_channel * c.height + c.current_row

\* the number of consumed bytes at which row idx of session c begins, by
\* the session's own table of line lengths
RECURSIVE RowStart(_, _)
RowStart(c, idx) ==
    IF idx = 0 THEN CHOOSE a \in EnteredAt(c, PSD_STATE_CHANNEL_DATA) : TRUE
    ELSE RowStart(c, idx - 1) + lines_lengths_at(c, idx - 1, 0)

\* the bytes of row idx in the stream of session s
RowLine(s, idx) ==
    SubSeq(stream[s], RowStart(ctx[s], idx) + 1,
           RowStart(ctx[s], idx) + lines_lengths_at(ctx[s], idx, 0))

\* row idx of session s, a line that decodes to width bytes, is in the
\* buffer of channel idx \div height at offset (idx % height) * width
RowInPlace(s, idx, line) ==
    (PackBits(line).ok /\ Len(PackBits(line).out) = ctx[s].width)
    => \A j \in 1..ctx[s].width :
            ctx[s].channels_buffers[idx \div ctx[s].height + 1]
                .mem[(idx % ctx[s].height) * ctx[s].width + j] = PackBits(line).out[j]

RleSession(s) ==
    /\ proc = "running"
    /\ ctx[s].compression = PSD_COMPRESSION_RLE
    /\ ctx[s].state \in {PSD_STATE_CHANNEL_DATA, PSD_STATE_DONE}

\* C16: RLE channel data.  The rows are completed in channel-major order:
\* with n rows completed the cursors are at channel n \div height and row
\* n % height, the write offset is row * width (0 after a channel change),
\* the bytes consumed are those of the first n lines of the session's table
\* and what is accumulated of line n, every completed row is decoded in its
\* channel's buffer at its row's offset, no later channel's buffer is
\* written, and the phase is Done exactly when channels * height rows are
\* completed.
C16_RleRows ==
    \A s \in Born :
        RleSession(s) =>
            /\ ctx[s].current_row < ctx[s].height
            /\ Cursor(ctx[s]) <= ctx[s].channels * ctx[s].height
            /\ ctx[s].state = PSD_STATE_DONE
                <=> Cursor(ctx[s]) = ctx[s].channels * ctx[s].height
            /\ ctx[s].position = ctx[s].current_row * ctx[s].width
            /\ IF ctx[s].state = PSD_STATE_DONE
               THEN EnteredAt(ctx[s], PSD_STATE_DONE) = {RowStart(ctx[s], Cursor(ctx[s]))}
               ELSE ctx[s].consumed = RowStart(ctx[s], Cursor(ctx[s])) + ctx[s].bytes_read
            /\ \A idx \in 0..(Cursor(ctx[s]) - 1) : RowInPlace(s, idx, RowLine(s, idx))
            /\ \A ch \in (ctx[s].current_channel + 1)..(ctx[s].channels - 1) :
                    ctx[s].channels_buffers[ch + 1].mem = << >>

\* a 3-channel image of two rows reached Done, all six rows in place
C16_Witness ==
    /\ "A" \in Born
    /\ RleSession("A")
    /\ ctx["A"].state = PSD_STATE_DONE
    /\ ctx["A"].height = 2 /\ ctx["A"].channels = 3
    /\ \A ch \in 0..2 : ctx["A"].channels_buffers[ch + 1].mem = RawChannel(kase["A"], ch)
    /\ \A idx \in 0..5 : PackBits(RowLine("A", idx)).ok

\* C17: whenever the phase is Channel Data the channel cursor is below the
\* channel count and the row cursor below the height, the table entry at
\* channel * height + row and the channel's buffer exist, and a header with
\* no channel or no row never leaves the Header phase.
C17_CursorsInRange ==
    \A s \in Born :
        /\ ctx[s].state = PSD_STATE_CHANNEL_DATA =>
            /\ ctx[s].current_channel >= 0 /\ ctx[s].current_channel < ctx[s].channels
            /\ ctx[s].current_row >= 0 /\ ctx[s].current_row < ctx[s].height
            /\ 2 * Cursor(ctx[s]) + 1 < ctx[s].lines_lengths.cap
            /\ ctx[s].current_channel < Len(ctx[s].channels_buffers)
            /\ ~ctx[s].channels_buffers[ctx[s].current_channel + 1].null
        /\ (ctx[s].channels = 0 \/ ctx[s].height = 0) => ctx[s].state = PSD_STATE_HEADER

\* the last row of the last channel of a two-row image is being read
C17_Witness ==
    /\ "A" \in Born
    /\ ctx["A"].state = PSD_STATE_CHANNEL_DATA
    /\ ctx["A"].height = 2
    /\ ctx["A"].current_row = 1
    /\ ctx["A"].current_channel = ctx["A"].channels - 1

\* a header with no row was fed and refused
C17_WitnessRejected ==
    /\ "A" \in Born
    /\ ctx["A"].height = 0
    /\ "nomem" \in failed["A"]

\* C20: PackBits decoding.  In a session of one-row channels, for every
\* completed row whose line of the declared length ends with a complete
\* packet, the channel's buffer holds the PackBits decoding of that line:
\* n + 1 literal bytes after a control n < 128, 257 - n copies of the next
\* byte after a control n > 128, nothing for 128.
C20_PackBitsDecoding ==
    \A s \in Born :
        (RleSession(s) /\ ctx[s].height = 1) =>
            \A ch \in 0..(ctx[s].current_channel - 1) :
                PackBits(RowLine(s, ch)).ok
                => ctx[s].channels_buffers[ch + 1].mem = PackBits(RowLine(s, ch)).out

\* the line FE 7F was decoded to 7F 7F 7F
C20_Witness ==
    /\ "A" \in Born
    /\ RleSession("A")
    /\ ctx["A"].state = PSD_STATE_DONE
    /\ RowLine("A", 0) = << 254, 127 >>
    /\ ctx["A"].channels_buffers[1].mem = << 127, 127, 127 >>

\* the line 80 02 7F 80 7F, a no-op and three literal bytes, was decoded
C20_WitnessLiteral ==
    /\ "A" \in Born
    /\ RleSession("A")
    /\ ctx["A"].state = PSD_STATE_DONE
    /\ RowLine("A", 2) = << 128, 2, 127, 128, 127 >>
    /\ ctx["A"].channels_buffers[3].mem = << 127, 128, 127 >>

====
